---- MODULE Spec2Model ----
(***************************************************************************)
(* The demo meeting server of demos/browser/server.js: one HTTP handler    *)
(* (an async function) that routes GET /, POST /join and POST /end, keeps  *)
(* the created meetings in the process-wide object meetingTable and calls  *)
(* the remote operations createMeeting, createAttendee and deleteMeeting.  *)
(*                                                                         *)
(* A step of the model is one run-to-completion turn of the event loop:    *)
(* the handler runs from the arrival of a request, or from the settling of *)
(* the promise it awaits, up to its next await or to its end.              *)
(***************************************************************************)
EXTENDS Integers, Sequences, FiniteSets, TLC

(***************************************************************************)
(* Bounds of the model.                                                    *)
(***************************************************************************)
\* Requests the server receives in one behaviour.
MaxRequests == 3
\* Requests suspended on a remote call at the same time.
MaxInFlight == 2

VARIABLES
    debug,           \* process.env.DEBUG is set (fixed when the process starts)
    exited,          \* the process has ended on an error that escaped a handler
    meetingTable,    \* own properties of the object meetingTable: title -> createMeeting response
    active,          \* the handler invocations suspended at an await: id -> context
    last,            \* the context of the handler invocation that ended last
    received,        \* number of requests received so far
    uuids,           \* number of uuid() calls made so far
    remoteMeetings,  \* the meetings that exist at the remote service
    created          \* number of meetings the remote service has created so far

vars == <<debug, exited, meetingTable, active, last, received, uuids, remoteMeetings, created>>

(***************************************************************************)
(* JavaScript values.                                                      *)
(***************************************************************************)
Undefined == [type |-> "undefined"]
\* A value inherited from Object.prototype (a function or the prototype
\* object itself): truthy, and without a property Meeting.
Inherited == [type |-> "inherited"]

\* Names of the properties every object literal inherits from
\* Object.prototype.
ObjectPrototype ==
    {"constructor", "toString", "__proto__", "valueOf", "hasOwnProperty", "isPrototypeOf",
     "propertyIsEnumerable", "toLocaleString", "__defineGetter__", "__defineSetter__",
     "__lookupGetter__", "__lookupSetter__"}

\* obj[key] on the object literal meetingTable: own property, else the
\* prototype chain, else undefined.
Get(table, key) ==
    IF key \in DOMAIN table THEN table[key]
    ELSE IF key \in ObjectPrototype THEN Inherited
    ELSE Undefined

\* A query object maps each parameter of the query string to the list of
\* its occurrences: a parameter that occurs once is a string (the element
\* of the list), one that occurs more than once is an array of strings, and
\* one that does not occur is undefined (it is not in the domain).
IsArray(query, k) == k \in DOMAIN query /\ Len(query[k]) > 1

RECURSIVE JoinComma(_)
\* Array.prototype.toString: the elements joined by ",".
JoinComma(items) ==
    IF Len(items) = 1 THEN items[1] ELSE items[1] \o "," \o JoinComma(Tail(items))

\* A query parameter in a boolean context: undefined and "" are falsy, an
\* array is truthy.
Truthy(query, k) == k \in DOMAIN query /\ (Len(query[k]) > 1 \/ query[k][1] # "")

\* Conversion of a query parameter to a string (template literal, string
\* concatenation, property key): undefined gives "undefined", an array its
\* elements joined by ",".
Str(query, k) == IF k \in DOMAIN query THEN JoinComma(query[k]) ELSE "undefined"

\* The property key requestUrl.query.title is converted to.
PropertyKey(query) == Str(query, "title")

Min(a, b) == IF a < b THEN a ELSE b

\* String.prototype.substring(0, end).
Substring(s, end) == SubSeq(s, 1, Min(Len(s), end))

\* The n-th value uuid() returns: 36 characters, distinct for distinct n.
Uuid(n) == "0000000" \o SubSeq("0123456789abcdef", n + 1, n + 1) \o "-0000-4000-8000-000000000000"

\* requestUrl.query.title.substring(0, 64), for a title that is a string.
ExternalMeetingId(query) == Substring(query["title"][1], 64)

\* The message of the TypeError of title.substring when the title is an
\* array, which has no method substring.
SubstringIsNotAFunction == "requestUrl.query.title.substring is not a function"

\* The external user id without the truncation.
ExternalUserIdUntruncated(query, n) == Substring(Uuid(n), 8) \o "#" \o Str(query, "name")

ExternalUserId(query, n) == Substring(Substring(Uuid(n), 8) \o "#" \o Str(query, "name"), 64)

(***************************************************************************)
(* Requests.                                                               *)
(***************************************************************************)
Methods == {"GET", "POST", "PUT"}
Pathnames == {"/", "/join", "/end", "/other"}
Titles == {"", "room", "constructor", "undefined"}
Names == {"", "al"}
Regions == {"", "us-east-1"}

\* A parameter that is absent or occurs once.
Param(k, values) == {<<>>} \cup {(k :> <<v>>) : v \in values}

\* The query object of ?title=..&name=..&region=.., each given once.
Query(title, name, region) == [title |-> <<title>>, name |-> <<name>>, region |-> <<region>>]

FullQuery == Query("room", "al", "us-east-1")

\* Queries with parameters given twice: their values are arrays.
ArrayQueries ==
    {[FullQuery EXCEPT !["title"] = <<"a", "b">>],
     [FullQuery EXCEPT !["name"] = <<"al", "bo">>, !["region"] = <<"us-east-1", "us-west-2">>]}

\* Query objects of url.parse(request.url, true): a parameter is absent,
\* empty or a non-empty string, or, given twice, an array. The queries of
\* the model are the empty one, FullQuery with one of its parameters
\* absent or replaced by each of its values, and ArrayQueries.
Queries ==
    {<<>>}
    \cup {t @@ [name |-> <<"al">>, region |-> <<"us-east-1">>] : t \in Param("title", Titles)}
    \cup {n @@ [title |-> <<"room">>, region |-> <<"us-east-1">>] : n \in Param("name", Names)}
    \cup {r @@ [title |-> <<"room">>, name |-> <<"al">>] : r \in Param("region", Regions)}
    \cup ArrayQueries

\* The requests of the model: every query on POST /join, every title on
\* POST /end, the other method and path pairs with a query, and GET / without.
Requests ==
    {<<"POST", "/join", q>> : q \in Queries}
    \cup {<<"POST", "/end", q>> : q \in Param("title", Titles) \cup {[title |-> <<"a", "b">>]}}
    \cup {<<mp[1], mp[2], FullQuery>> :
            mp \in (Methods \X Pathnames) \ {<<"POST", "/join">>, <<"POST", "/end">>}}
    \cup {<<"GET", "/", <<>>>>}

\* One request for each path through the handler: the index page, an unknown
\* route, a join that lacks parameters, a join that creates or reuses a
\* meeting, a join whose title is the name of an inherited property, and an
\* end (without and, after a join, with a record).
PathRequests ==
    {<<"GET", "/", <<>>>>, <<"GET", "/join", FullQuery>>, <<"POST", "/join", <<>>>>,
     <<"POST", "/join", FullQuery>>,
     <<"POST", "/join", Query("constructor", "al", "us-east-1")>>,
     <<"POST", "/end", [title |-> <<"room">>]>>}

RECURSIVE Repeat(_, _)
\* The string s repeated n times.
Repeat(s, n) == IF n = 0 THEN "" ELSE s \o Repeat(s, n - 1)

\* Lengths of the titles and of the names around the limit of 64 characters
\* of the external identifiers (a name follows 9 characters).
TitleLengths == {1, 63, 64, 65, 70}
NameLengths == {1, 54, 55, 56, 64, 70}

\* The requests of PathRequests, and joins with titles and names of these
\* lengths.
LengthRequests ==
    PathRequests
    \cup {<<"POST", "/join", Query(Repeat("t", n), "al", "us-east-1")>> : n \in TitleLengths}
    \cup {<<"POST", "/join", Query("room", Repeat("n", n), "us-east-1")>> : n \in NameLengths}

\* Messages of the errors a remote call is rejected with.
RemoteErrors == {"ThrottledClientException"}

indexPage == "<html>"

(***************************************************************************)
(* The handler.                                                            *)
(***************************************************************************)
NoRequest ==
    [id |-> 0, method |-> "", pathname |-> "", query |-> <<>>, responseStatus |-> 0,
     found |-> Undefined, meeting |-> Undefined, calls |-> <<>>, responses |-> <<>>,
     metrics |-> <<>>]

\* The server accepts requests: the process has not exited.
Listening == ~exited /\ received < MaxRequests

\* Lines 78-81: the context of a new handler invocation whose request
\* target url.parse has parsed. found records what the lookup of the title
\* in meetingTable yields when the request arrives.
Begin(method, pathname, query) ==
    [id |-> received + 1, method |-> method, pathname |-> pathname, query |-> query,
     responseStatus |-> 200,
     found |-> Get(meetingTable, PropertyKey(query)), meeting |-> Undefined,
     calls |-> <<>>, responses |-> <<>>, metrics |-> <<>>]

\* The if-chain with the tests of request.method left out.
RouteByPathname(method, pathname, dbg) ==
    IF pathname = "/" THEN "index"
    ELSE IF dbg /\ pathname = "/join" THEN "debug"
    ELSE IF pathname = "/join" THEN "join"
    ELSE IF pathname = "/end" THEN "end"
    ELSE "notFound"

\* The if-chain with the debug branch first and untested: with the flag set
\* every request goes to the debug helper.
RouteDebugFirst(method, pathname, dbg) ==
    IF dbg THEN "debug"
    ELSE IF method = "GET" /\ pathname = "/" THEN "index"
    ELSE IF method = "POST" /\ pathname = "/join" THEN "join"
    ELSE IF method = "POST" /\ pathname = "/end" THEN "end"
    ELSE "notFound"

\* The if-chain with the join branch before the debug branch: a POST /join
\* never reaches the debug helper.
RouteJoinFirst(method, pathname, dbg) ==
    IF method = "GET" /\ pathname = "/" THEN "index"
    ELSE IF method = "POST" /\ pathname = "/join" THEN "join"
    ELSE IF dbg /\ method = "POST" /\ pathname = "/join" THEN "debug"
    ELSE IF method = "POST" /\ pathname = "/end" THEN "end"
    ELSE "notFound"

\* Lines 87-146: the branch of the if-chain a request takes.
Route(method, pathname, dbg) ==
    IF method = "GET" /\ pathname = "/" THEN "index"
    ELSE IF dbg /\ method = "POST" /\ pathname = "/join" THEN "debug"
    ELSE IF method = "POST" /\ pathname = "/join" THEN "join"
    ELSE IF method = "POST" /\ pathname = "/end" THEN "end"
    ELSE "notFound"

\* The parameter check without its disjunct for name.
NeedParametersTitleRegion(query) ==
    ~Truthy(query, "title") \/ ~Truthy(query, "region")

\* Line 95: the parameter check of POST /join.
NeedParameters(query) ==
    ~Truthy(query, "title") \/ ~Truthy(query, "name") \/ ~Truthy(query, "region")

\* Lines 179-186: respond.
respond(ctx, statusCode, contentType, body) ==
    [ctx EXCEPT !.responses =
        Append(@, [statusCode |-> statusCode, contentType |-> contentType, body |-> body])]

\* Lines 147-150: the catch clause.
Catch(ctx, message) ==
    respond([ctx EXCEPT !.responseStatus = 400], 400, "application/json", [error |-> message])

\* Lines 151-168: the metrics line, written when the handler ends; responded
\* is the number of responses sent when the line is written.
LogMetrics(ctx) ==
    [ctx EXCEPT !.metrics =
        Append(@, [method |-> ctx.method, status |-> ctx.responseStatus,
                   pathname |-> ctx.pathname, title |-> Str(ctx.query, "title"),
                   responded |-> Len(ctx.responses)])]

\* A call of a remote operation: the handler suspends on its promise.
Call(ctx, op, params) ==
    [ctx EXCEPT !.calls =
        Append(@, [op |-> op, params |-> params, result |-> "pending", error |-> ""])]

\* The remote call the handler awaits settles: it resolves, or it is
\* rejected with an error that has a message.
Settle(ctx, result, message) ==
    [ctx EXCEPT !.calls[Len(ctx.calls)].result = result,
                !.calls[Len(ctx.calls)].error = message]

\* The wordings the versions of the JavaScript engine give the message of
\* the TypeError of reading a property of undefined.
CannotRead(property) ==
    {"Cannot read property '" \o property \o "' of undefined",
     "Cannot read properties of undefined (reading '" \o property \o "')"}

\* The messages the TypeError that value.Meeting.MeetingId throws can have:
\* none when it throws no error.
TypeErrorOf(value) ==
    IF value = Undefined THEN CannotRead("Meeting")
    ELSE IF "Meeting" \notin DOMAIN value THEN CannotRead("MeetingId")
    ELSE {}

Awaits(id, op) ==
    /\ ~exited
    /\ id \in DOMAIN active
    /\ active[id].calls[Len(active[id].calls)].op = op

Remove(f, id) == [i \in DOMAIN f \ {id} |-> f[i]]

\* The handler ends (falls through to line 168).
Ends(ctx) ==
    /\ last' = LogMetrics(ctx)
    /\ active' = Remove(active, ctx.id)

\* The handler suspends at an await.
Suspends(ctx) ==
    /\ Cardinality(DOMAIN active \cup {ctx.id}) <= MaxInFlight
    /\ active' = (ctx.id :> ctx) @@ Remove(active, ctx.id)
    /\ last' = last

Init ==
    /\ debug \in BOOLEAN
    /\ exited = FALSE
    /\ meetingTable = <<>>
    /\ active = <<>>
    /\ last = NoRequest
    /\ received = 0
    /\ uuids = 0
    /\ remoteMeetings = {}
    /\ created = 0

\* Line 81: url.parse throws for the request target, outside the try
\* block: a malformed escape in the auth part, such as "http://%@h/", on
\* every version of the runtime, and an invalid host, such as "http://[/",
\* on the versions that reject it (on the others such a request is one of
\* Arrives, its pathname matching no route). The error escapes the handler,
\* which sends no response and writes no metrics line; requestUrl is never
\* assigned (the pathname of the context is ""). The rejection of the
\* handler's promise is unhandled: the runtime either reports it and the
\* process goes on serving, or ends the process, by its version.
UrlParseThrows(method) ==
    /\ Listening
    /\ last' = [NoRequest EXCEPT !.id = received + 1, !.method = method,
                                 !.responseStatus = 200]
    /\ exited' \in BOOLEAN
    /\ received' = received + 1
    /\ UNCHANGED <<debug, meetingTable, active, uuids, remoteMeetings, created>>

\* Lines 87-89: GET /.
GetIndex(method, pathname, query) ==
    /\ Listening
    /\ Route(method, pathname, debug) = "index"
    /\ Ends(respond(Begin(method, pathname, query), 200, "text/html", indexPage))
    /\ received' = received + 1
    /\ UNCHANGED <<debug, exited, meetingTable, uuids, remoteMeetings, created>>

\* Lines 143-146: any other method and path.
NotFound(method, pathname, query) ==
    /\ Listening
    /\ Route(method, pathname, debug) = "notFound"
    /\ Ends(respond([Begin(method, pathname, query) EXCEPT !.responseStatus = 404],
                    404, "text/html", "404 Not Found"))
    /\ received' = received + 1
    /\ UNCHANGED <<debug, exited, meetingTable, uuids, remoteMeetings, created>>

\* Lines 90-93: POST /join with DEBUG set; the helper of debug.js returns.
DebugJoin(method, pathname, query) ==
    /\ Listening
    /\ Route(method, pathname, debug) = "debug"
    /\ Ends(respond([Begin(method, pathname, query) EXCEPT !.responseStatus = 201],
                    201, "application/json", [debug |-> query]))
    /\ received' = received + 1
    /\ UNCHANGED <<debug, exited, meetingTable, uuids, remoteMeetings, created>>

\* The path of server.js in the require stack of the error: it depends on
\* where the repository is installed (and the stack goes on with the
\* modules that required server.js).
ServerJs == "server.js"

\* The messages of the error of require('./debug.js'), a module that is not
\* in the repository: the versions of the runtime word it without or with
\* the require stack.
CannotFindModule ==
    {"Cannot find module './debug.js'",
     "Cannot find module './debug.js'\nRequire stack:\n- " \o ServerJs}

\* Lines 90-93 and 147-150: POST /join with DEBUG set; require('./debug.js')
\* throws.
DebugJoinThrows(method, pathname, query) ==
    /\ Listening
    /\ Route(method, pathname, debug) = "debug"
    /\ \E message \in CannotFindModule :
          Ends(Catch([Begin(method, pathname, query) EXCEPT !.responseStatus = 201], message))
    /\ received' = received + 1
    /\ UNCHANGED <<debug, exited, meetingTable, uuids, remoteMeetings, created>>

\* Lines 115-127: fetch the meeting of the title from the table and call
\* createAttendee; meeting.Meeting.MeetingId throws a TypeError when the
\* value fetched has no property Meeting.
CreateAttendee(ctx, table) ==
    LET meeting == Get(table, PropertyKey(ctx.query)) IN
    IF TypeErrorOf(meeting) = {}
    THEN /\ Suspends(Call([ctx EXCEPT !.meeting = meeting], "createAttendee",
                          [MeetingId |-> meeting.Meeting.MeetingId,
                           ExternalUserId |-> ExternalUserId(ctx.query, uuids)]))
         /\ uuids' = uuids + 1
    ELSE /\ \E message \in TypeErrorOf(meeting) : Ends(Catch(ctx, message))
         /\ uuids' = uuids

\* The presence check left out: every join creates a meeting.
MeetingMissingAlways(table, query) == TRUE

\* Line 100: !meetingTable[requestUrl.query.title].
MeetingMissing(table, query) == Get(table, PropertyKey(query)) = Undefined

\* POST /join that stores a placeholder for the title before it awaits
\* createMeeting, so that the check and the store are one step.
JoinReserves(method, pathname, query) ==
    /\ Listening
    /\ Route(method, pathname, debug) = "join"
    /\ LET ctx == Begin(method, pathname, query) IN
       IF NeedParameters(query)
       THEN /\ Ends(Catch(ctx, "Need parameters: title, name, region"))
            /\ UNCHANGED <<uuids, meetingTable>>
       ELSE IF MeetingMissing(meetingTable, query) /\ IsArray(query, "title")
       THEN /\ Ends(Catch(ctx, SubstringIsNotAFunction))
            /\ uuids' = uuids + 1
            /\ meetingTable' = meetingTable
       ELSE IF MeetingMissing(meetingTable, query)
       THEN /\ Suspends(Call(ctx, "createMeeting",
                             [ClientRequestToken |-> Uuid(uuids),
                              MediaRegion |-> query["region"],
                              ExternalMeetingId |-> ExternalMeetingId(query)]))
            /\ uuids' = uuids + 1
            /\ meetingTable' = (PropertyKey(query) :> [Meeting |-> [MeetingId |-> 0]])
                                  @@ meetingTable
       ELSE CreateAttendee(ctx, meetingTable) /\ UNCHANGED meetingTable
    /\ received' = received + 1
    /\ UNCHANGED <<debug, exited, remoteMeetings, created>>

\* Lines 94-112: POST /join up to its first await. The argument of
\* createMeeting is evaluated in the order of its properties: uuid() is
\* called, and then title.substring throws when the title is an array.
Join(method, pathname, query) ==
    /\ Listening
    /\ Route(method, pathname, debug) = "join"
    /\ LET ctx == Begin(method, pathname, query) IN
       IF NeedParameters(query)
       THEN /\ Ends(Catch(ctx, "Need parameters: title, name, region"))
            /\ uuids' = uuids
       ELSE IF MeetingMissing(meetingTable, query) /\ IsArray(query, "title")
       THEN /\ Ends(Catch(ctx, SubstringIsNotAFunction))
            /\ uuids' = uuids + 1
       ELSE IF MeetingMissing(meetingTable, query)
       THEN /\ Suspends(Call(ctx, "createMeeting",
                             [ClientRequestToken |-> Uuid(uuids),
                              MediaRegion |-> query["region"],
                              ExternalMeetingId |-> ExternalMeetingId(query)]))
            /\ uuids' = uuids + 1
       ELSE CreateAttendee(ctx, meetingTable)
    /\ received' = received + 1
    /\ UNCHANGED <<debug, exited, meetingTable, remoteMeetings, created>>

\* The remote service creates a meeting, unless a meeting created with the
\* same client request token exists.
RemoteMeeting(params) ==
    IF \E m \in remoteMeetings : m.ClientRequestToken = params.ClientRequestToken
    THEN CHOOSE m \in remoteMeetings : m.ClientRequestToken = params.ClientRequestToken
    ELSE [MeetingId |-> created + 1, ExternalMeetingId |-> params.ExternalMeetingId,
          MediaRegion |-> params.MediaRegion, ClientRequestToken |-> params.ClientRequestToken]

\* The response of createMeeting.
MeetingResponse(m) ==
    [Meeting |-> [MeetingId |-> m.MeetingId, ExternalMeetingId |-> m.ExternalMeetingId,
                  MediaRegion |-> m.MediaRegion]]

\* Line 101: meetingTable[title] = <the awaited response>.
Store(table, key, value) == (key :> value) @@ table

\* Lines 101-127: createMeeting resolves; the response is stored and the
\* handler goes on to createAttendee.
CreateMeetingResolves(id) ==
    /\ Awaits(id, "createMeeting")
    /\ LET ctx == Settle(active[id], "resolved", "")
           m == RemoteMeeting(ctx.calls[Len(ctx.calls)].params)
           table == Store(meetingTable, PropertyKey(ctx.query), MeetingResponse(m))
       IN /\ meetingTable' = table
          /\ remoteMeetings' = remoteMeetings \cup {m}
          /\ created' = IF m \in remoteMeetings THEN created ELSE created + 1
          /\ CreateAttendee(ctx, table)
    /\ UNCHANGED <<debug, exited, received>>

\* createMeeting is called again when it is rejected.
CreateMeetingRetried(id, message) ==
    /\ Awaits(id, "createMeeting")
    /\ LET ctx == Settle(active[id], "rejected", message) IN
       Suspends(Call(ctx, "createMeeting", ctx.calls[Len(ctx.calls)].params))
    /\ UNCHANGED <<debug, exited, meetingTable, received, uuids, remoteMeetings, created>>

\* createMeeting is rejected and the handler stores the error as the record
\* of the title.
CreateMeetingRejectsStores(id, message) ==
    /\ Awaits(id, "createMeeting")
    /\ meetingTable' = Store(meetingTable, PropertyKey(active[id].query), [error |-> message])
    /\ Ends(Catch(Settle(active[id], "rejected", message), message))
    /\ UNCHANGED <<debug, exited, received, uuids, remoteMeetings, created>>

\* Lines 101 and 147-150: createMeeting is rejected.
CreateMeetingRejects(id, message) ==
    /\ Awaits(id, "createMeeting")
    /\ Ends(Catch(Settle(active[id], "rejected", message), message))
    /\ UNCHANGED <<debug, exited, meetingTable, received, uuids, remoteMeetings, created>>

\* Lines 101 and 147-150: createMeeting is rejected (a timeout) although the
\* remote service has created the meeting.
CreateMeetingTimesOut(id) ==
    /\ Awaits(id, "createMeeting")
    /\ LET ctx == Settle(active[id], "rejected", "TimeoutError")
           m == RemoteMeeting(ctx.calls[Len(ctx.calls)].params)
       IN /\ remoteMeetings' = remoteMeetings \cup {m}
          /\ created' = IF m \in remoteMeetings THEN created ELSE created + 1
          /\ Ends(Catch(ctx, "TimeoutError"))
    /\ UNCHANGED <<debug, exited, meetingTable, received, uuids>>

\* Lines 118-136: createAttendee resolves; the handler responds 201.
CreateAttendeeResolves(id) ==
    /\ Awaits(id, "createAttendee")
    /\ LET ctx == Settle(active[id], "resolved", "")
           attendee == [Attendee |->
                          [ExternalUserId |-> ctx.calls[Len(ctx.calls)].params.ExternalUserId]]
       IN Ends(respond([ctx EXCEPT !.responseStatus = 201], 201, "application/json",
                       [JoinInfo |-> [Meeting |-> ctx.meeting, Attendee |-> attendee]]))
    /\ UNCHANGED <<debug, exited, meetingTable, received, uuids, remoteMeetings, created>>

\* createAttendee is rejected and the handler takes the record of the title
\* out of the table again.
CreateAttendeeRejectsRollsBack(id, message) ==
    /\ Awaits(id, "createAttendee")
    /\ meetingTable' = Remove(meetingTable, PropertyKey(active[id].query))
    /\ Ends(Catch(Settle(active[id], "rejected", message), message))
    /\ UNCHANGED <<debug, exited, received, uuids, remoteMeetings, created>>

\* Lines 118 and 147-150: createAttendee is rejected.
CreateAttendeeRejects(id, message) ==
    /\ Awaits(id, "createAttendee")
    /\ Ends(Catch(Settle(active[id], "rejected", message), message))
    /\ UNCHANGED <<debug, exited, meetingTable, received, uuids, remoteMeetings, created>>

\* POST /end that answers 200 when the title has no meeting to delete.
EndIgnoresMissing(method, pathname, query) ==
    /\ Listening
    /\ Route(method, pathname, debug) = "end"
    /\ LET ctx == Begin(method, pathname, query)
           meeting == Get(meetingTable, PropertyKey(query))
       IN IF TypeErrorOf(meeting) # {}
          THEN Ends(respond(ctx, 200, "application/json", <<>>))
          ELSE Suspends(Call(ctx, "deleteMeeting", [MeetingId |-> meeting.Meeting.MeetingId]))
    /\ received' = received + 1
    /\ UNCHANGED <<debug, exited, meetingTable, uuids, remoteMeetings, created>>

\* Lines 137-141: POST /end up to its await. The argument of deleteMeeting
\* is meetingTable[title].Meeting.MeetingId, which throws a TypeError when
\* the lookup yields undefined or a value without a property Meeting.
End(method, pathname, query) ==
    /\ Listening
    /\ Route(method, pathname, debug) = "end"
    /\ LET ctx == Begin(method, pathname, query)
           meeting == Get(meetingTable, PropertyKey(query))
       IN IF TypeErrorOf(meeting) # {}
          THEN \E message \in TypeErrorOf(meeting) : Ends(Catch(ctx, message))
          ELSE Suspends(Call(ctx, "deleteMeeting", [MeetingId |-> meeting.Meeting.MeetingId]))
    /\ received' = received + 1
    /\ UNCHANGED <<debug, exited, meetingTable, uuids, remoteMeetings, created>>

\* deleteMeeting resolves and the handler responds 204.
DeleteMeetingResolvesNoContent(id) ==
    /\ Awaits(id, "deleteMeeting")
    /\ LET ctx == Settle(active[id], "resolved", "") IN
       /\ remoteMeetings' =
            {m \in remoteMeetings : m.MeetingId # ctx.calls[Len(ctx.calls)].params.MeetingId}
       /\ Ends(respond([ctx EXCEPT !.responseStatus = 204], 204, "application/json", <<>>))
    /\ UNCHANGED <<debug, exited, meetingTable, received, uuids, created>>

\* deleteMeeting resolves and the handler removes the title from the table.
DeleteMeetingResolvesForgets(id) ==
    /\ Awaits(id, "deleteMeeting")
    /\ LET ctx == Settle(active[id], "resolved", "") IN
       /\ remoteMeetings' =
            {m \in remoteMeetings : m.MeetingId # ctx.calls[Len(ctx.calls)].params.MeetingId}
       /\ meetingTable' = Remove(meetingTable, PropertyKey(ctx.query))
       /\ Ends(respond(ctx, 200, "application/json", <<>>))
    /\ UNCHANGED <<debug, exited, received, uuids, created>>

\* Lines 139-142: deleteMeeting resolves; the handler responds 200 with {}.
DeleteMeetingResolves(id) ==
    /\ Awaits(id, "deleteMeeting")
    /\ LET ctx == Settle(active[id], "resolved", "") IN
       /\ remoteMeetings' =
            {m \in remoteMeetings : m.MeetingId # ctx.calls[Len(ctx.calls)].params.MeetingId}
       /\ Ends(respond(ctx, 200, "application/json", <<>>))
    /\ UNCHANGED <<debug, exited, meetingTable, received, uuids, created>>

\* Lines 139 and 147-150: deleteMeeting is rejected.
DeleteMeetingRejects(id, message) ==
    /\ Awaits(id, "deleteMeeting")
    /\ Ends(Catch(Settle(active[id], "rejected", message), message))
    /\ UNCHANGED <<debug, exited, meetingTable, received, uuids, remoteMeetings, created>>

Ids == 1..MaxRequests

\* The promise a suspended handler awaits settles.
Settles(id) ==
    \/ CreateMeetingResolves(id)
    \/ \E message \in RemoteErrors : CreateMeetingRejects(id, message)
    \/ CreateMeetingTimesOut(id)
    \/ CreateAttendeeResolves(id)
    \/ \E message \in RemoteErrors : CreateAttendeeRejects(id, message)
    \/ DeleteMeetingResolves(id)
    \/ \E message \in RemoteErrors : DeleteMeetingRejects(id, message)

\* A request arrives and its handler runs up to its first await or its end.
Arrives(method, pathname, query) ==
    \/ GetIndex(method, pathname, query)
    \/ DebugJoin(method, pathname, query)
    \/ DebugJoinThrows(method, pathname, query)
    \/ Join(method, pathname, query)
    \/ End(method, pathname, query)
    \/ NotFound(method, pathname, query)

Next ==
    \/ \E req \in Requests : Arrives(req[1], req[2], req[3])
    \/ \E method \in Methods : UrlParseThrows(method)
    \/ \E id \in Ids : Settles(id)

Spec == Init /\ [][Next]_vars

\* The server with one request for each path through the handler.
PathNext ==
    \/ \E req \in PathRequests : Arrives(req[1], req[2], req[3])
    \/ \E method \in Methods : UrlParseThrows(method)
    \/ \E id \in Ids : Settles(id)

\* Every remote call that was issued settles: its promise resolves or rejects.
FairSpec == Init /\ [][PathNext]_vars /\ \A id \in Ids : WF_vars(Settles(id))

\* The server with a client that sends a request only after the response to
\* its previous request: no two handler invocations overlap.
SerialNext ==
    \/ active = <<>> /\ \E req \in Requests : Arrives(req[1], req[2], req[3])
    \/ active = <<>> /\ \E method \in Methods : UrlParseThrows(method)
    \/ \E id \in Ids : Settles(id)

SerialSpec == Init /\ [][SerialNext]_vars

\* The server with requests whose titles and names are long, each arriving
\* when no other is in flight.
LengthNext ==
    \/ active = <<>> /\ \E req \in LengthRequests : Arrives(req[1], req[2], req[3])
    \/ active = <<>> /\ \E method \in Methods : UrlParseThrows(method)
    \/ \E id \in Ids : Settles(id)

LengthSpec == Init /\ [][LengthNext]_vars

(***************************************************************************)
(* The claims.                                                             *)
(***************************************************************************)
\* The operations a handler invocation has called, in order.
Ops(ctx) == [i \in 1..Len(ctx.calls) |-> ctx.calls[i].op]

\* Number of calls of an operation a handler invocation has issued.
Issued(ctx, op) == Cardinality({i \in 1..Len(ctx.calls) : ctx.calls[i].op = op})

NoneRejected(ctx) == \A i \in 1..Len(ctx.calls) : ctx.calls[i].result # "rejected"

\* The title of the request had a record in the meeting table when the
\* request arrived.
HadRecord(ctx) == "Meeting" \in DOMAIN ctx.found

\* A POST /join with the debug flag unset.
IsJoin(ctx) == ctx.id > 0 /\ ctx.method = "POST" /\ ctx.pathname = "/join" /\ ~debug

\* A POST /end.
IsEnd(ctx) == ctx.id > 0 /\ ctx.method = "POST" /\ ctx.pathname = "/end"

\* title, name and region are present and non-empty.
HasParameters(ctx) ==
    Truthy(ctx.query, "title") /\ Truthy(ctx.query, "name") /\ Truthy(ctx.query, "region")

\* The handler invocation sent exactly this one response.
Responded(ctx, statusCode, contentType) ==
    /\ Len(ctx.responses) = 1
    /\ ctx.responses[1].statusCode = statusCode
    /\ ctx.responses[1].contentType = contentType

\* The request that arrives in this step: its handler has ended (last') or
\* is suspended (active').
Arrived == IF received' \in DOMAIN active' THEN active'[received'] ELSE last'

\* url.parse has parsed the target of the request: requestUrl is assigned.
Parsed(ctx) == ctx.pathname # ""

\* A join that created and attended, for a title without a record.
FirstJoinDone ==
    /\ IsJoin(last) /\ ~HadRecord(last)
    /\ Ops(last) = <<"createMeeting", "createAttendee">>
    /\ Responded(last, 201, "application/json")

\* C1: a POST /join with non-empty title, name and region (debug unset)
\* whose title has no record in the meeting table, and whose remote calls
\* are not rejected, issues one createMeeting and then one createAttendee
\* and responds 201 with the meeting and the attendee.
C1_FirstJoinCreatesAndAttends ==
    (IsJoin(last) /\ HasParameters(last) /\ ~HadRecord(last) /\ NoneRejected(last))
        => /\ Ops(last) = <<"createMeeting", "createAttendee">>
           /\ Responded(last, 201, "application/json")
           /\ last.responses[1].body.JoinInfo.Meeting = last.meeting
           /\ last.responses[1].body.JoinInfo.Attendee.Attendee.ExternalUserId
                = last.calls[2].params.ExternalUserId

\* A join for a title with a record calls createAttendee, once and first,
\* for the meeting stored when the request arrived.
AttendsStored(ctx) ==
    /\ Ops(ctx) = <<"createAttendee">>
    /\ ctx.calls[1].params.MeetingId = ctx.found.Meeting.MeetingId
    /\ ctx.meeting = ctx.found

\* C2 as stated: every join (with non-empty parameters) for a title that has
\* a record issues no createMeeting, one createAttendee for the stored
\* meeting, and returns the stored meeting record.
C2_JoinReturnsStoredMeeting ==
    (IsJoin(last) /\ HasParameters(last) /\ HadRecord(last))
        => /\ AttendsStored(last)
           /\ Responded(last, 201, "application/json")
           /\ last.responses[1].body.JoinInfo.Meeting = last.found

\* C2 amended: once a title has a record, every join for it with non-empty
\* parameters issues no createMeeting and exactly one createAttendee, for
\* the MeetingId of the record stored when the join is handled; it responds
\* 201 with that record when createAttendee resolves, and 400 when
\* createAttendee is rejected.
C2_JoinReusesStoredMeeting ==
    /\ \A id \in DOMAIN active :
          (IsJoin(active[id]) /\ HadRecord(active[id]))
              => AttendsStored(active[id]) /\ active[id].calls[1].result = "pending"
    /\ (IsJoin(last) /\ HasParameters(last) /\ HadRecord(last))
          => /\ AttendsStored(last)
             /\ last.calls[1].result = "resolved"
                  => /\ Responded(last, 201, "application/json")
                     /\ last.responses[1].body.JoinInfo.Meeting = last.found
             /\ last.calls[1].result = "rejected"
                  => Responded(last, 400, "application/json")
             /\ last.calls[1].result # "pending"

\* A join after an end: the join found the record of a meeting that the
\* remote service no longer has, and responded 201 with it.
C2_Witness ==
    /\ IsJoin(last) /\ HadRecord(last)
    /\ Responded(last, 201, "application/json")
    /\ \A m \in remoteMeetings : m.MeetingId # last.found.Meeting.MeetingId

\* C3: a POST /join (debug unset) in which title, name or region is absent
\* or empty responds 400 with an error message in the step it arrives,
\* issues no remote call and leaves the meeting table (and the remote
\* meetings) unchanged.
C3_JoinNeedsParameters ==
    [][(received' # received /\ IsJoin(Arrived) /\ ~HasParameters(Arrived))
          => /\ last' = Arrived
             /\ Responded(last', 400, "application/json")
             /\ last'.responses[1].body = [error |-> "Need parameters: title, name, region"]
             /\ last'.calls = <<>>
             /\ UNCHANGED <<meetingTable, remoteMeetings, active, uuids, created>>]_vars

\* A join without a region was answered 400.
C3_Witness ==
    /\ IsJoin(last) /\ "region" \notin DOMAIN last.query
    /\ Truthy(last.query, "title") /\ Truthy(last.query, "name")
    /\ Responded(last, 400, "application/json")

\* C4: a POST /end for a title that has no record in the meeting table
\* throws: in the step the request arrives it is answered by the catch
\* clause, 400 with the error's message; no deleteMeeting (no remote call at
\* all) is issued and the meeting table is unchanged.
C4_EndWithoutRecordIs400 ==
    [][(received' # received /\ IsEnd(Arrived) /\ ~HadRecord(Arrived))
          => /\ last' = Arrived
             /\ Responded(last', 400, "application/json")
             /\ DOMAIN last'.responses[1].body = {"error"}
             /\ last'.responses[1].body.error \in TypeErrorOf(last'.found)
             /\ last'.responseStatus = 400
             /\ last'.calls = <<>>
             /\ UNCHANGED <<meetingTable, remoteMeetings, active, uuids, created>>]_vars

\* An end for the title "room", which no join has created, was answered 400.
C4_Witness ==
    /\ IsEnd(last) /\ PropertyKey(last.query) = "room"
    /\ "room" \notin DOMAIN meetingTable
    /\ Responded(last, 400, "application/json")

\* The three routes of the server.
Routes == {<<"GET", "/">>, <<"POST", "/join">>, <<"POST", "/end">>}

\* C5: a request whose method and path (as url.parse gives it) are none of
\* GET /, POST /join and POST /end is answered 404 in the step it arrives,
\* issues no remote call and leaves the meeting table unchanged.
C5_OtherRoutesAre404 ==
    [][(received' # received /\ Parsed(Arrived)
          /\ <<Arrived.method, Arrived.pathname>> \notin Routes)
          => /\ last' = Arrived
             /\ Responded(last', 404, "text/html")
             /\ last'.responses[1].body = "404 Not Found"
             /\ last'.responseStatus = 404
             /\ last'.calls = <<>>
             /\ UNCHANGED <<meetingTable, remoteMeetings, active, uuids, created>>]_vars

\* A POST / was answered 404.
C5_Witness ==
    /\ last.id > 0 /\ last.method = "POST" /\ last.pathname = "/"
    /\ Responded(last, 404, "text/html")

\* The remote calls of a handler invocation: each operation at most once,
\* and no call after a call that was rejected.
NoRetry(ctx) ==
    /\ \A op \in {"createMeeting", "createAttendee", "deleteMeeting"} : Issued(ctx, op) <= 1
    /\ \A i \in 1..(Len(ctx.calls) - 1) : ctx.calls[i].result = "resolved"

\* C6: a request one of whose remote calls is rejected responds 400 with the
\* message of the rejection and issues no further remote call; no request
\* issues a remote operation twice.
C6_RejectionIs400NoRetry ==
    /\ \A id \in DOMAIN active :
          /\ NoRetry(active[id])
          /\ active[id].calls[Len(active[id].calls)].result = "pending"
          /\ active[id].responses = <<>>
    /\ NoRetry(last)
    /\ \A i \in 1..Len(last.calls) :
          /\ last.calls[i].result # "pending"
          /\ last.calls[i].result = "rejected"
                => /\ i = Len(last.calls)
                   /\ Responded(last, 400, "application/json")
                   /\ last.responses[1].body = [error |-> last.calls[i].error]
                   /\ last.calls[i].error # ""

\* A join whose createMeeting resolved and whose createAttendee was rejected
\* responded 400.
C6_Witness ==
    /\ Ops(last) = <<"createMeeting", "createAttendee">>
    /\ last.calls[2].result = "rejected"
    /\ Responded(last, 400, "application/json")

\* C7: the presence check and the store are separate steps. The step in
\* which a join finds no entry and calls createMeeting leaves the meeting
\* table unchanged, and the table changes only in a later step, when a
\* createMeeting that some join awaits resolves, and only at that join's
\* title; so a second join for the title can arrive in between (C7_Witness).
C7_CheckAndStoreSeparated ==
    [][/\ (received' # received /\ received' \in DOMAIN active'
             /\ Ops(Arrived) = <<"createMeeting">>)
          => /\ meetingTable' = meetingTable
             /\ PropertyKey(Arrived.query) \notin DOMAIN meetingTable
       /\ meetingTable' # meetingTable
          => /\ received' = received
             /\ \E id \in DOMAIN active :
                   /\ Awaits(id, "createMeeting")
                   /\ id \in DOMAIN active' => Ops(active'[id]) = <<"createMeeting", "createAttendee">>
                   /\ id \notin DOMAIN active' => last'.id = id
                   /\ \A t \in DOMAIN meetingTable' :
                         t # PropertyKey(active[id].query)
                            => t \in DOMAIN meetingTable /\ meetingTable'[t] = meetingTable[t]]_vars

\* Two joins for one title, both arrived while the title had no entry, have
\* both had their createMeeting resolved: two meetings with the same
\* external meeting id exist at the remote service.
C7_Witness ==
    \E i, j \in DOMAIN active :
        /\ i # j
        /\ IsJoin(active[i]) /\ IsJoin(active[j])
        /\ PropertyKey(active[i].query) = PropertyKey(active[j].query)
        /\ ~HadRecord(active[i]) /\ ~HadRecord(active[j])
        /\ Ops(active[i]) = <<"createMeeting", "createAttendee">>
        /\ Ops(active[j]) = <<"createMeeting", "createAttendee">>
        /\ active[i].meeting # active[j].meeting
        /\ \E m, n \in remoteMeetings :
              /\ m.MeetingId = active[i].meeting.Meeting.MeetingId
              /\ n.MeetingId = active[j].meeting.Meeting.MeetingId
              /\ m.MeetingId # n.MeetingId
              /\ m.ExternalMeetingId = n.ExternalMeetingId

\* An end for a title with a record has called deleteMeeting, once and
\* first, with the MeetingId of the record stored when the request arrived.
DeletesStored(ctx) ==
    /\ Ops(ctx) = <<"deleteMeeting">>
    /\ ctx.calls[1].params = [MeetingId |-> ctx.found.Meeting.MeetingId]

\* C8: a POST /end for a title that has a record in the meeting table issues
\* exactly one deleteMeeting, with the MeetingId of the record stored for the
\* title when the request is handled, and responds 200 with an empty JSON
\* object when the call resolves.
C8_EndDeletesStoredMeeting ==
    /\ \A id \in DOMAIN active :
          (IsEnd(active[id]) /\ HadRecord(active[id])) => DeletesStored(active[id])
    /\ (IsEnd(last) /\ HadRecord(last))
          => /\ DeletesStored(last)
             /\ last.calls[1].result = "resolved"
                  => /\ Responded(last, 200, "application/json")
                     /\ last.responses[1].body = <<>>
                     /\ last.responseStatus = 200

\* An end for a title with a record responded 200.
C8_Witness ==
    /\ IsEnd(last) /\ HadRecord(last)
    /\ last.calls[1].result = "resolved"
    /\ Responded(last, 200, "application/json")

\* A step of a POST /end: the request arrives, or the deleteMeeting it
\* awaits settles.
EndStep ==
    \/ received' # received /\ IsEnd(Arrived)
    \/ \E id \in DOMAIN active : IsEnd(active[id]) /\ id \notin DOMAIN active'

\* C9: no step removes an entry of the meeting table, and no step of a
\* POST /end changes the meeting table.
C9_EntriesNeverRemoved ==
    [][/\ DOMAIN meetingTable \subseteq DOMAIN meetingTable'
       /\ EndStep => meetingTable' = meetingTable]_vars

\* An end responded 200 and the title still has the record of the meeting,
\* which the remote service no longer has.
C9_Witness ==
    /\ IsEnd(last) /\ HadRecord(last)
    /\ Responded(last, 200, "application/json")
    /\ PropertyKey(last.query) \in DOMAIN meetingTable
    /\ meetingTable[PropertyKey(last.query)] = last.found
    /\ \A m \in remoteMeetings : m.MeetingId # last.found.Meeting.MeetingId

\* A handler invocation that has ended sent exactly one response, with a
\* status of the server, and ran to its last statement (the metrics line).
Completed(ctx) ==
    /\ Len(ctx.responses) = 1
    /\ ctx.responses[1].statusCode \in {200, 201, 400, 404}
    /\ Len(ctx.metrics) = 1

\* C10: every request receives exactly one response, with status 200, 201,
\* 400 or 404, and its handler runs to completion (no error escapes it): a
\* handler that is suspended has sent no response, a handler ends only
\* having sent one, and, every remote call settling, every suspended
\* handler eventually ends.
C10_OneResponseAndCompletion ==
    /\ [](/\ last.id > 0 => Completed(last)
          /\ \A id \in DOMAIN active :
                active[id].responses = <<>> /\ active[id].metrics = <<>>)
    /\ [][/\ received' # received
             => /\ Arrived.id = received'
                /\ received' \notin DOMAIN active' => Completed(last')
          /\ \A id \in DOMAIN active :
                id \notin DOMAIN active' => last'.id = id /\ Completed(last')]_vars
    /\ \A id \in Ids : (id \in DOMAIN active) ~> (last.id = id /\ Completed(last))

\* C11: with a client that retries a join only after its response (no two
\* requests overlap), at most one meeting results at the remote service for
\* a title, also when a createMeeting was rejected after the service had
\* created the meeting and the join is sent again.
C11_RetryCreatesNoSecondMeeting ==
    \A m, n \in remoteMeetings : m.ExternalMeetingId = n.ExternalMeetingId => m = n

\* C12: a GET / is answered 200 with the index page in the step it arrives,
\* in every state of the meeting table, with the debug flag set or unset and
\* with or without query parameters; it issues no remote call and leaves the
\* meeting table (and everything else but the request count) unchanged; and
\* while the server takes requests, a GET / can always be handled.
C12_IndexAlways200 ==
    /\ [](Listening => ENABLED GetIndex("GET", "/", FullQuery))
    /\ [][(received' # received /\ Arrived.method = "GET" /\ Arrived.pathname = "/")
             => /\ last' = Arrived
                /\ Responded(last', 200, "text/html")
                /\ last'.responses[1].body = indexPage
                /\ last'.responseStatus = 200
                /\ last'.calls = <<>>
                /\ UNCHANGED <<meetingTable, remoteMeetings, active, uuids, created>>]_vars

\* A GET / with query parameters was answered 200 while the meeting table
\* held a record and a handler was suspended on a remote call.
C12_Witness ==
    /\ last.id > 0 /\ last.method = "GET" /\ last.pathname = "/"
    /\ last.query = FullQuery
    /\ Responded(last, 200, "text/html")
    /\ meetingTable # <<>> /\ active # <<>>

\* The calls of an operation issued by the handler invocations that are
\* suspended or ended last, each with the query of its request.
CallsOf(op) ==
    UNION {{<<ctx.query, ctx.calls[i].params>> :
                i \in {k \in 1..Len(ctx.calls) : ctx.calls[k].op = op}} :
            ctx \in {active[id] : id \in DOMAIN active} \cup {last}}

\* An external meeting id is the first min(64, length) characters of the title.
TitlePrefix(query, id) ==
    /\ Len(query["title"]) = 1
    /\ Len(id) = Min(64, Len(query["title"][1]))
    /\ id = SubSeq(query["title"][1], 1, Len(id))

\* C13 as stated: the external user id has min(64, 8 + length of name)
\* characters, and the external meeting id is the first min(64, length of
\* title) characters of the title.
C13_UserIdIsPrefixAndName ==
    /\ \A c \in CallsOf("createAttendee") :
          /\ Len(c[2].ExternalUserId) = Min(64, 8 + Len(JoinComma(c[1]["name"])))
          /\ Len(c[2].ExternalUserId) <= 64
    /\ \A c \in CallsOf("createMeeting") : TitlePrefix(c[1], c[2].ExternalMeetingId)

\* C13 amended: the external user id is the 8-character prefix of a uuid,
\* the character '#' and the name, truncated to 64 characters: it has
\* min(64, 9 + length of name) characters; and the external meeting id is
\* the first min(64, length of title) characters of the title.
C13_UserIdIsPrefixHashName ==
    /\ \A c \in CallsOf("createAttendee") :
          LET id == c[2].ExternalUserId IN
          /\ Len(id) = Min(64, 9 + Len(JoinComma(c[1]["name"])))
          /\ Len(id) <= 64
          /\ \E n \in 0..(2 * MaxRequests) : SubSeq(id, 1, 8) = SubSeq(Uuid(n), 1, 8)
          /\ SubSeq(id, 9, 9) = "#"
          /\ SubSeq(id, 10, Len(id)) = SubSeq(JoinComma(c[1]["name"]), 1, Len(id) - 9)
    /\ \A c \in CallsOf("createMeeting") : TitlePrefix(c[1], c[2].ExternalMeetingId)

\* createAttendee was called for a name of 56 characters, which with the
\* prefix and the '#' exceeds 64, and createMeeting for a title of 65.
C13_Witness ==
    /\ \E c \in CallsOf("createAttendee") :
          c[1]["name"] = <<Repeat("n", 56)>> /\ Len(c[2].ExternalUserId) = 64
    /\ \E c \in CallsOf("createMeeting") :
          c[1]["title"] = <<Repeat("t", 65)>> /\ Len(c[2].ExternalMeetingId) = 64

\* C14: with the debug flag set, a POST /join ends in its arrival step with
\* the answer of the debug helper (201, or 400 when the helper throws): no
\* parameter is validated, no remote call is issued, and the meeting table
\* and everything else of the server stay as they are; GET / and POST /end
\* take the same branch as with the flag unset, and do what they do then.
C14_DebugBypassesJoin ==
    /\ \A req \in Requests :
          <<req[1], req[2]>> # <<"POST", "/join">>
             => Route(req[1], req[2], TRUE) = Route(req[1], req[2], FALSE)
    /\ [][(debug /\ received' # received)
            => /\ (Arrived.method = "POST" /\ Arrived.pathname = "/join")
                  => /\ last' = Arrived
                     /\ Arrived.calls = <<>>
                     /\ \/ /\ Responded(Arrived, 201, "application/json")
                           /\ Arrived.responses[1].body = [debug |-> Arrived.query]
                        \/ /\ Responded(Arrived, 400, "application/json")
                           /\ DOMAIN Arrived.responses[1].body = {"error"}
                           /\ Arrived.responses[1].body.error \in CannotFindModule
                     /\ UNCHANGED <<meetingTable, remoteMeetings, active, uuids, created>>
               /\ (Arrived.method = "GET" /\ Arrived.pathname = "/")
                  => last' = Arrived /\ Responded(Arrived, 200, "text/html")
               /\ (Arrived.method = "POST" /\ Arrived.pathname = "/end")
                  => IF HadRecord(Arrived)
                     THEN Ops(Arrived) = <<"deleteMeeting">> /\ Arrived.responses = <<>>
                     ELSE last' = Arrived /\ Responded(Arrived, 400, "application/json")]_vars

\* With the flag set, a POST /join that lacks parameters was answered 201 by
\* the debug helper.
C14_Witness ==
    /\ debug
    /\ last.id > 0 /\ last.method = "POST" /\ last.pathname = "/join"
    /\ NeedParameters(last.query)
    /\ Responded(last, 201, "application/json")
    /\ last.calls = <<>>

\* C15: the record stored in the meeting table for a title is write-once:
\* no step replaces the record of a title by a different meeting, whatever
\* the interleaving of the joins.
C15_RecordIsWriteOnce ==
    [][\A t \in DOMAIN meetingTable :
          t \in DOMAIN meetingTable' /\ meetingTable'[t] = meetingTable[t]]_vars

\* The createMeeting call of the join that ended last was rejected.
CreateMeetingRejected(ctx) ==
    /\ IsJoin(ctx)
    /\ ctx.calls # <<>>
    /\ ctx.calls[1].op = "createMeeting" /\ ctx.calls[1].result = "rejected"

\* C16: the step in which the createMeeting call of a join is rejected ends
\* the join with the response 400, the join has issued no createAttendee
\* call, and the meeting table is left as it is; while the title stays
\* without a record, the next join for it calls createMeeting again.
C16_RejectedCreateStoresNothing ==
    [][/\ (\E id \in DOMAIN active : /\ Awaits(id, "createMeeting")
                                     /\ last'.id = id
                                     /\ CreateMeetingRejected(last'))
          => /\ Ops(last') = <<"createMeeting">>
             /\ Responded(last', 400, "application/json")
             /\ last'.responseStatus = 400
             /\ meetingTable' = meetingTable
             /\ received' = received
       /\ (/\ received' # received
           /\ CreateMeetingRejected(last)
           /\ IsJoin(Arrived) /\ HasParameters(Arrived)
           /\ Arrived.query["title"] = last.query["title"]
           /\ PropertyKey(Arrived.query) \notin DOMAIN meetingTable)
          => /\ Ops(Arrived) = <<"createMeeting">>
             /\ Arrived.calls[1].result = "pending"]_vars

\* A join ended with 400 after its createMeeting call was rejected, its
\* title has no record, and the next join for the title awaits createMeeting.
C16_Witness ==
    /\ CreateMeetingRejected(last)
    /\ Responded(last, 400, "application/json")
    /\ PropertyKey(last.query) \notin DOMAIN meetingTable
    /\ \E id \in DOMAIN active :
          /\ id > last.id
          /\ PropertyKey(active[id].query) = PropertyKey(last.query)
          /\ Ops(active[id]) = <<"createMeeting">>

\* The titles for which a createMeeting call resolves in this step.
ResolvedTitles ==
    {PropertyKey(active[id].query) :
        id \in {i \in DOMAIN active :
                  /\ Awaits(i, "createMeeting")
                  /\ i \in DOMAIN active'
                  /\ active'[i].calls[1].result = "resolved"}}

\* A join that created a meeting and whose createAttendee call was rejected.
AttendeeRejected(ctx) ==
    /\ IsJoin(ctx)
    /\ Ops(ctx) = <<"createMeeting", "createAttendee">>
    /\ ctx.calls[1].result = "resolved" /\ ctx.calls[2].result = "rejected"

\* C17: when the createMeeting call of a join resolves the meeting is stored
\* as the record of the title, and the step in which the createAttendee
\* call of that join is rejected answers 400 and leaves the meeting table
\* as it is, the title with a record; the table starts empty and a title
\* gets a record exactly in the steps in which a createMeeting call issued
\* for that title resolves, and none loses its record: a title has a record
\* if and only if a createMeeting call for it has resolved.
C17_RejectedAttendeeKeepsMeeting ==
    /\ (received = 0 => meetingTable = <<>>)
    /\ [][/\ \A t \in ResolvedTitles :
                /\ t \in DOMAIN meetingTable'
                /\ \E id \in DOMAIN active' :
                      /\ Ops(active'[id]) = <<"createMeeting", "createAttendee">>
                      /\ PropertyKey(active'[id].query) = t
                      /\ active'[id].meeting = meetingTable'[t]
          /\ DOMAIN meetingTable' = DOMAIN meetingTable \cup ResolvedTitles
          /\ (\E id \in DOMAIN active : /\ Awaits(id, "createAttendee")
                                        /\ last'.id = id
                                        /\ AttendeeRejected(last'))
             => /\ Responded(last', 400, "application/json")
                /\ last'.responseStatus = 400
                /\ meetingTable' = meetingTable
                /\ PropertyKey(last'.query) \in DOMAIN meetingTable'
                /\ "Meeting" \in DOMAIN meetingTable'[PropertyKey(last'.query)]]_vars

\* A join created a meeting, its createAttendee call was rejected, it
\* answered 400 and the meeting it created is the record of its title.
C17_Witness ==
    /\ AttendeeRejected(last)
    /\ Responded(last, 400, "application/json")
    /\ PropertyKey(last.query) \in DOMAIN meetingTable
    /\ meetingTable[PropertyKey(last.query)] = last.meeting

\* C18: while the meeting table is empty (no createMeeting call has
\* resolved), the lookup of the title of an arriving request yields no
\* record, whatever the non-empty title: a join with its parameters calls
\* createMeeting, and an end answers 400 without a remote call.
C18_EmptyTableHasNoRecord ==
    [][(/\ received' # received
        /\ meetingTable = <<>>
        /\ Truthy(Arrived.query, "title"))
          => /\ Arrived.found = Undefined
             /\ (IsJoin(Arrived) /\ HasParameters(Arrived))
                   => Ops(Arrived) = <<"createMeeting">>
             /\ IsEnd(Arrived)
                   => /\ last' = Arrived
                      /\ Arrived.calls = <<>>
                      /\ Responded(Arrived, 400, "application/json")]_vars

\* C19: a handler invocation that has ended has written exactly one metrics
\* line, after its one response was sent, and the status in the line is the
\* status of that response, one of 200, 201, 400 and 404; an invocation
\* that is suspended has written no metrics line and sent no response.
C19_OneMetricsLineWithSentStatus ==
    /\ last.id > 0
          => /\ Len(last.metrics) = 1
             /\ Len(last.responses) = 1
             /\ last.metrics[1].responded = 1
             /\ last.metrics[1].status = last.responses[1].statusCode
             /\ last.metrics[1].status \in {200, 201, 400, 404}
             /\ last.metrics[1].method = last.method
             /\ last.metrics[1].pathname = last.pathname
    /\ \A id \in DOMAIN active :
          active[id].metrics = <<>> /\ active[id].responses = <<>>
====
